---- MODULE Spec2Model ----
(***************************************************************************)
(* admin-backend (src/server/server.js): an Express server with            *)
(*  - five JSON files on local disk: gold, animal, crops (arrays of        *)
(*    records with an auto-assigned identifying field) and kccdata,        *)
(*    kccahdata (whole-document overwrite);                                *)
(*  - a table user_details in an external relational store (Supabase).     *)
(*                                                                         *)
(* Every request handler is an async function.  Between two awaits its     *)
(* code runs without interruption, so a file handler is modelled by the    *)
(* step that ends with its file read and the synchronous code after it,    *)
(* and the step of its file write and response.                            *)
(*                                                                         *)
(* The handlers of different files share no state: each reads and writes   *)
(* its own file only.  A run follows the requests on one of the five       *)
(* files, the file in focus; all five files are on the modelled disk.      *)
(***************************************************************************)
EXTENDS Integers, Sequences, FiniteSets, TLC

VARIABLES
    isVercel,   \* process.env.VERCEL === '1'
    focus,      \* the file whose endpoints the clients of this run call
    accepted,   \* the number of requests accepted so far
    started,    \* startServer has awaited initializeFiles
    fs,         \* the disk: path -> [exists, data]
    pc,         \* per request slot: "idle", "write" or "done"
    req,        \* per request slot: the request being handled
    loc,        \* per request slot: the handler's local variables
    resp,       \* per request slot: the response sent
    rows,       \* the rows of table user_details, in insertion order
    last        \* the last store request: what it was, the calls it issued, its answer

vars == <<isVercel, focus, accepted, started, fs, pc, req, loc, resp, rows, last>>
fileVars == <<isVercel, focus, accepted, started, fs, pc, req, loc, resp>>

(***************************************************************************)
(* Bounds of the model.                                                    *)
(***************************************************************************)
MaxRequests == 3     \* file requests accepted in one run
MaxRows == 2         \* an insert is accepted while the table holds fewer rows

Procs == {"r1", "r2"}            \* request slots: two requests can be in flight

(***************************************************************************)
(* JSON values.  A request body is a JSON object or a JSON array (the      *)
(* express.json parser accepts both).  An object carries the fields id,    *)
(* crop_code and amount; Absent stands for a field that is not there       *)
(* (undefined).  An array carries its elements; as a JavaScript object it  *)
(* can be given the named properties id and crop_code in memory.           *)
(***************************************************************************)
Absent == 0 - 1
NaN == 0 - 2

Obj(i, c, a) == [kind |-> "obj", id |-> i, crop_code |-> c, amount |-> a, elems |-> <<>>]
Arr(es) == [kind |-> "arr", id |-> Absent, crop_code |-> Absent, amount |-> Absent, elems |-> es]

GetField(v, f) == IF f = "id" THEN v.id ELSE v.crop_code
SetField(v, f, x) == IF f = "id" THEN [v EXCEPT !.id = x] ELSE [v EXCEPT !.crop_code = x]

\* JSON.stringify followed by JSON.parse (fs.writeJson then fs.readJson, or
\* res.json then the client's parse): an object keeps its fields, an array
\* keeps its elements and loses every named property.
RECURSIVE Stringify(_)
Stringify(v) ==
    IF v.kind = "arr"
    THEN Arr([i \in DOMAIN v.elems |-> Stringify(v.elems[i])])
    ELSE [v EXCEPT !.elems = [i \in DOMAIN v.elems |-> Stringify(v.elems[i])]]

(***************************************************************************)
(* Files.                                                                  *)
(***************************************************************************)
Collections == {"gold", "animal", "crops"}
Datasets == {"kccdata", "kccahdata"}
Names == Collections \cup Datasets
Dirs == {"/tmp", "__dirname", "__dirname/components/data"}
Paths == Dirs \X Names

baseDir == IF isVercel THEN "/tmp" ELSE "__dirname"
FilePath(name) == <<baseDir, name>>
LocalFilePath(name) == <<"__dirname/components/data", name>>
IdField(name) == IF name = "crops" THEN "crop_code" ELSE "id"

NoFile == [exists |-> FALSE, data |-> Arr(<<>>)]
PathExists(disk, path) == disk[path].exists
ReadJson(disk, path) == disk[path].data
\* as WriteJson, with an array written after the elements of the array the
\* file holds
WriteJsonAppending(disk, path, v) ==
    LET old == disk[path].data
        new == IF disk[path].exists /\ old.kind = "arr" /\ v.kind = "arr"
               THEN Arr(old.elems \o v.elems) ELSE v
    IN  [disk EXCEPT ![path] = [exists |-> TRUE, data |-> new]]
WriteJson(disk, path, v) == [disk EXCEPT ![path] = [exists |-> TRUE, data |-> Stringify(v)]]

\* initializeFiles: each listed file that does not exist is written as [].
RECURSIVE CreateMissing(_, _)
CreateMissing(disk, paths) ==
    IF paths = {} THEN disk
    ELSE LET p == CHOOSE q \in paths : TRUE
             d == IF PathExists(disk, p) THEN disk ELSE WriteJson(disk, p, Arr(<<>>))
         IN  CreateMissing(d, paths \ {p})

InitTargets == IF isVercel THEN {FilePath(n) : n \in Names}
               ELSE {LocalFilePath(n) : n \in Names}

(***************************************************************************)
(* The handlers' synchronous computations.                                 *)
(***************************************************************************)
\* data.reduce((max, item) => (item.id > max ? item.id : max), 0)
RECURSIVE Reduce(_, _, _, _)
Reduce(es, f, i, max) ==
    IF i > Len(es) THEN max
    ELSE LET x == GetField(es[i], f)
         IN  Reduce(es, f, i + 1, IF x /= Absent /\ x > max THEN x ELSE max)

\* as MaxIdOf, with the maximum taken over the field id in every collection
MaxIdOfFieldId(es, f) == Reduce(es, "id", 1, 0)
MaxIdOf(es, f) == Reduce(es, f, 1, 0)

\* as NextId, with the value drawn from the count of the requests accepted,
\* which no two requests share
NextIdBySequence(es, f) == accepted + 1
\* newRecord.id = maxId + 1
NextId(es, f) == MaxIdOf(es, f) + 1

\* data.findIndex(item => item.id === id): the first index, 0 for -1
StrictEq(x, y) == x /= NaN /\ y /= NaN /\ x /= Absent /\ x = y
FindIndex(es, f, id) ==
    IF \E i \in DOMAIN es : StrictEq(GetField(es[i], f), id)
    THEN CHOOSE i \in DOMAIN es :
            /\ StrictEq(GetField(es[i], f), id)
            /\ \A j \in 1..(i - 1) : ~StrictEq(GetField(es[j], f), id)
    ELSE 0

\* as Stamp, with the identifying field left as the body has it
StampNothing(body, f, id) == body
\* updatedRecord.id = id
Stamp(body, f, id) == SetField(body, f, id)

\* as ReplaceAt, with the record pushed instead of assigned at the index
ReplaceByPush(es, index, rec) == Append(es, rec)
\* data[index] = updatedRecord
ReplaceAt(es, index, rec) == [es EXCEPT ![index] = rec]

\* data.splice(index, 1)
Splice(es, index) == [i \in 1..(Len(es) - 1) |-> IF i < index THEN es[i] ELSE es[i + 1]]

\* parseInt(req.params.id) for a path parameter made of digits and letters:
\* the value of the leading digits, NaN when there is none.
Digits == <<"0", "1", "2", "3", "4", "5", "6", "7", "8", "9">>
IsDigit(ch) == \E d \in DOMAIN Digits : Digits[d] = ch
DigitVal(ch) == (CHOOSE d \in DOMAIN Digits : Digits[d] = ch) - 1
RECURSIVE ParseDigits(_, _, _)
ParseDigits(s, i, acc) ==
    IF i > Len(s) \/ ~IsDigit(s[i]) THEN acc
    ELSE ParseDigits(s, i + 1, acc * 10 + DigitVal(s[i]))
ParseInt(s) == IF Len(s) = 0 \/ ~IsDigit(s[1]) THEN NaN ELSE ParseDigits(s, 1, 0)

(***************************************************************************)
(* Inputs.                                                                 *)
(***************************************************************************)
Bodies == {Obj(Absent, Absent, 5), Obj(1, 1, 7), Arr(<<>>)}
Payloads == {Arr(<<>>), Arr(<<Obj(Absent, Absent, 5)>>), Obj(1, Absent, 7)}
PathIds == {<<"1">>, <<"2">>, <<"2", "x">>, <<"x">>}

NoReq == [op |-> "none", name |-> "gold", body |-> Arr(<<>>), id |-> <<>>, seq |-> 0]
NoLoc == [data |-> Arr(<<>>), rec |-> Arr(<<>>), snap |-> NoFile]
NoResp == [status |-> 0, body |-> Arr(<<>>), text |-> ""]
Answer(s, b, t) == [status |-> s, body |-> Stringify(b), text |-> t]

\* the texts of the answers
NotFoundText(name) ==
    CASE name = "gold" -> "Record not found"
      [] name = "animal" -> "Animal record not found"
      [] OTHER -> "Crop record not found"
ReadFailedText(name) ==
    CASE name = "gold" -> "Failed to read gold data"
      [] name = "animal" -> "Failed to read animal data"
      [] name = "crops" -> "Failed to read crop data"
      [] OTHER -> "Error reading data"
UpdateFailedText(name) ==
    CASE name = "gold" -> "Failed to update record"
      [] name = "animal" -> "Failed to update animal record"
      [] OTHER -> "Failed to update crop record"
DeleteFailedText(name) ==
    CASE name = "gold" -> "Failed to delete record"
      [] name = "animal" -> "Failed to delete animal record"
      [] OTHER -> "Failed to delete crop record"
DeletedText(name) ==
    CASE name = "gold" -> "Record deleted successfully"
      [] name = "animal" -> "Animal record deleted successfully"
      [] OTHER -> "Crop record deleted successfully"

\* no request has reached the store yet
NoLast ==
    [route |-> "none",
     args |-> [uid |-> "", isUpdate |-> "absent", body |-> <<>>,
               filter |-> [t |-> "undefined", s |-> <<>>], tag |-> <<>>],
     before |-> <<>>, calls |-> <<>>, status |-> 0, out |-> <<>>, total |-> 0]

Init ==
    /\ isVercel \in BOOLEAN
    /\ focus \in Names
    /\ accepted = 0
    /\ started = FALSE
    /\ fs = [p \in Paths |-> NoFile]
    /\ pc = [p \in Procs |-> "idle"]
    /\ req = [p \in Procs |-> NoReq]
    /\ loc = [p \in Procs |-> NoLoc]
    /\ resp = [p \in Procs |-> NoResp]
    /\ rows = <<>>
    /\ last = NoLast

(***************************************************************************)
(* startServer: await initializeFiles(), then listen.                      *)
(***************************************************************************)
InitializeFiles ==
    /\ ~started
    /\ started' = TRUE
    /\ fs' = CreateMissing(fs, InitTargets)
    /\ UNCHANGED <<isVercel, focus, accepted, pc, req, loc, resp, rows, last>>

\* A request is accepted by the free slot p and handled up to its write or to
\* its response.  The requests are those that arrive once startServer has
\* awaited initializeFiles (app.listen comes after it).
Accept(p) ==
    /\ started
    /\ pc[p] \in {"idle", "done"}
    /\ accepted < MaxRequests

Handle(p, r, nextPc, l, a) ==
    /\ accepted' = accepted + 1
    /\ pc' = [pc EXCEPT ![p] = nextPc]
    /\ req' = [req EXCEPT ![p] = [r EXCEPT !.seq = accepted + 1]]
    /\ loc' = [loc EXCEPT ![p] = l]
    /\ resp' = [resp EXCEPT ![p] = a]

\* GET /api/<name>
List(p, name) ==
    /\ Accept(p)
    /\ LET r == [NoReq EXCEPT !.op = "list", !.name = name]
           l == [NoLoc EXCEPT !.snap = fs[FilePath(name)]]
       IN  IF PathExists(fs, FilePath(name))
           THEN Handle(p, r, "done", l, Answer(200, ReadJson(fs, FilePath(name)), ""))
           ELSE Handle(p, r, "done", l, Answer(500, Arr(<<>>), ReadFailedText(name)))
    /\ UNCHANGED <<isVercel, focus, started, fs, rows, last>>

\* POST /api/kccdata, /api/kccahdata
Overwrite(p, name, body) ==
    /\ Accept(p)
    /\ fs' = WriteJson(fs, FilePath(name), body)
    /\ Handle(p, [NoReq EXCEPT !.op = "overwrite", !.name = name, !.body = body], "done",
              [NoLoc EXCEPT !.snap = fs[FilePath(name)]],
              Answer(201, Arr(<<>>), "Data overwritten successfully."))
    /\ UNCHANGED <<isVercel, focus, started, rows, last>>

\* POST /api/gold, /api/animal, /api/crops up to the await of fs.writeJson
CreateRead(p, name, body) ==
    /\ Accept(p)
    /\ LET path == FilePath(name)
           f == IdField(name)
           data == IF PathExists(fs, path) THEN ReadJson(fs, path) ELSE Arr(<<>>)
           newRecord == SetField(body, f, NextId(data.elems, f))
       IN  Handle(p, [NoReq EXCEPT !.op = "create", !.name = name, !.body = body], "write",
                     [data |-> [data EXCEPT !.elems = Append(data.elems, newRecord)],
                      rec |-> newRecord, snap |-> fs[path]],
                     NoResp)
    /\ UNCHANGED <<isVercel, focus, started, fs, rows, last>>

\* PUT /api/<name>/:id up to the await of fs.writeJson, or to the 404 / 500
ReplaceRead(p, name, id, body) ==
    /\ Accept(p)
    /\ LET path == FilePath(name)
           f == IdField(name)
           r == [NoReq EXCEPT !.op = "replace", !.name = name, !.body = body, !.id = id]
           data == ReadJson(fs, path)
           index == FindIndex(data.elems, f, ParseInt(id))
           updatedRecord == Stamp(body, f, ParseInt(id))
           l == [NoLoc EXCEPT !.snap = fs[path]]
       IN  IF ~PathExists(fs, path)
           THEN Handle(p, r, "done", l, Answer(500, Arr(<<>>), UpdateFailedText(name)))
           ELSE IF index = 0
           THEN Handle(p, r, "done", l, Answer(404, Arr(<<>>), NotFoundText(name)))
           ELSE Handle(p, r, "write",
                       [data |-> [data EXCEPT !.elems = ReplaceAt(data.elems, index, updatedRecord)],
                        rec |-> updatedRecord, snap |-> fs[path]],
                       NoResp)
    /\ UNCHANGED <<isVercel, focus, started, fs, rows, last>>

\* DELETE /api/<name>/:id up to the await of fs.writeJson, or to the 404 / 500
DeleteRead(p, name, id) ==
    /\ Accept(p)
    /\ LET path == FilePath(name)
           f == IdField(name)
           r == [NoReq EXCEPT !.op = "delete", !.name = name, !.id = id]
           data == ReadJson(fs, path)
           index == FindIndex(data.elems, f, ParseInt(id))
           l == [NoLoc EXCEPT !.snap = fs[path]]
       IN  IF ~PathExists(fs, path)
           THEN Handle(p, r, "done", l, Answer(500, Arr(<<>>), DeleteFailedText(name)))
           ELSE IF index = 0
           THEN Handle(p, r, "done", l, Answer(404, Arr(<<>>), NotFoundText(name)))
           ELSE Handle(p, r, "write",
                       [data |-> [data EXCEPT !.elems = Splice(data.elems, index)],
                        rec |-> Arr(<<>>), snap |-> fs[path]],
                       NoResp)
    /\ UNCHANGED <<isVercel, focus, started, fs, rows, last>>

\* await fs.writeJson(path, data) and the response after it
SuccessAnswer(r, l) ==
    CASE r.op = "create" -> Answer(201, l.rec, "")
      [] r.op = "replace" -> Answer(200, l.rec, "")
      [] OTHER -> Answer(200, Arr(<<>>), DeletedText(r.name))

\* as Write, with the request's change applied to the file as it is at the
\* time of the write, not to the copy the request read
WriteReapplying(p) ==
    /\ pc[p] = "write"
    /\ LET r == req[p]
           path == FilePath(r.name)
           now == ReadJson(fs, path)
           i == FindIndex(now.elems, IdField(r.name), ParseInt(r.id))
           es == CASE r.op = "create" -> Append(now.elems, loc[p].rec)
                   [] i = 0 -> now.elems
                   [] r.op = "replace" -> ReplaceAt(now.elems, i, loc[p].rec)
                   [] OTHER -> Splice(now.elems, i)
       IN  fs' = WriteJson(fs, path, [now EXCEPT !.elems = es])
    /\ pc' = [pc EXCEPT ![p] = "done"]
    /\ resp' = [resp EXCEPT ![p] = SuccessAnswer(req[p], loc[p])]
    /\ UNCHANGED <<isVercel, focus, accepted, started, req, loc, rows, last>>
Write(p) ==
    /\ pc[p] = "write"
    /\ fs' = WriteJson(fs, FilePath(req[p].name), loc[p].data)
    /\ pc' = [pc EXCEPT ![p] = "done"]
    /\ resp' = [resp EXCEPT ![p] = SuccessAnswer(req[p], loc[p])]
    /\ UNCHANGED <<isVercel, focus, accepted, started, req, loc, rows, last>>

(***************************************************************************)
(* Spec: the requests on the collection in focus, the steps of different   *)
(* requests interleaved.                                                   *)
(***************************************************************************)
IsCollection == focus \in Collections
IsDataset == focus \in Datasets

Next ==
    \/ InitializeFiles
    \/ \E p \in Procs, b \in Bodies : IsCollection /\ CreateRead(p, focus, b)
    \/ \E p \in Procs, i \in PathIds, b \in Bodies : IsCollection /\ ReplaceRead(p, focus, i, b)
    \/ \E p \in Procs, i \in PathIds : IsCollection /\ DeleteRead(p, focus, i)
    \/ \E p \in Procs : Write(p)

Spec == Init /\ [][Next]_vars

(***************************************************************************)
(* SpecSeq: the requests on the file in focus run one after another: a     *)
(* request is accepted only when no other is between its read and write.   *)
(***************************************************************************)
Quiet == \A q \in Procs : pc[q] /= "write"

NextSeq ==
    \/ InitializeFiles
    \/ \E p \in Procs : Quiet /\ List(p, focus)
    \/ \E p \in Procs, b \in Payloads : Quiet /\ IsDataset /\ Overwrite(p, focus, b)
    \/ \E p \in Procs, b \in Bodies : Quiet /\ IsCollection /\ CreateRead(p, focus, b)
    \/ \E p \in Procs, i \in PathIds, b \in Bodies :
            Quiet /\ IsCollection /\ ReplaceRead(p, focus, i, b)
    \/ \E p \in Procs, i \in PathIds : Quiet /\ IsCollection /\ DeleteRead(p, focus, i)
    \/ \E p \in Procs : Write(p)

SpecSeq == Init /\ [][NextSeq]_vars

(***************************************************************************)
(* SpecCreate: nothing but creates on the collection in focus, one after   *)
(* another.                                                                *)
(***************************************************************************)
NextCreate ==
    \/ InitializeFiles
    \/ \E p \in Procs, b \in Bodies : Quiet /\ IsCollection /\ CreateRead(p, focus, b)
    \/ \E p \in Procs : Write(p)

SpecCreate == Init /\ [][NextCreate]_vars

(***************************************************************************)
(* Properties of the file requests.                                        *)
(***************************************************************************)
\* the identifying field: id, or crop_code for crops
FocusField == IF focus = "crops" THEN "crop_code" ELSE "id"
FocusFile == fs[FilePath(focus)]
FocusElems == ReadJson(fs, FilePath(focus)).elems
Pending == {q \in Procs : pc[q] = "write"}
Latest(p) == pc[p] = "done" /\ req[p].seq = accepted
AllObjects(es) == \A i \in DOMAIN es : es[i].kind = "obj"
HasIds(es, f, n) == Len(es) = n /\ \A i \in 1..n : GetField(es[i], f) = i
NoDuplicateId(es, f) ==
    \A i, j \in DOMAIN es :
        i < j /\ GetField(es[i], f) /= Absent => GetField(es[i], f) /= GetField(es[j], f)

\* what a create answered, for the k-th request of a run of creates
CreatedAs(p, k) ==
    /\ resp[p].status = 201
    /\ GetField(resp[p].body, FocusField) = k
    /\ k \in DOMAIN FocusElems /\ FocusElems[k] = resp[p].body

\* C1 as stated: in a run of creates on a collection, one after another and
\* with whatever bodies, the n-th create is answered 201 with a record whose
\* identifying field is n, and the file holds the n records created, their
\* identifying fields 1..n in creation order.
C1_NthCreateGetsN ==
    IsCollection =>
        /\ HasIds(FocusElems, FocusField, accepted - Cardinality(Pending))
        /\ \A p \in Procs : pc[p] = "done" => CreatedAs(p, req[p].seq)

\* C1 amended: the same, for the runs of creates whose bodies are all JSON
\* objects (the file then holds objects only, and every request body is one).
C1_NthObjectCreateGetsN ==
    (/\ IsCollection
     /\ AllObjects(FocusElems)
     /\ \A p \in Procs : req[p].op = "create" => req[p].body.kind = "obj") => C1_NthCreateGetsN

\* the third create of a run of JSON-object creates is answered; its body
\* carried the value 1 for the identifying field
C1_Witness ==
    \E p \in Procs :
        /\ IsCollection /\ Latest(p) /\ accepted = 3
        /\ AllObjects(FocusElems)
        /\ \A q \in Procs : req[q].op = "create" => req[q].body.kind = "obj"
        /\ req[p].body = Obj(1, 1, 7)
        /\ GetField(resp[p].body, FocusField) = 3

\* C2: whatever the interleaving of the reads and writes of the create,
\* replace and delete requests, no two records of the collection file have
\* the same identifying-field value.
C2_IdsUnique == IsCollection => NoDuplicateId(FocusElems, FocusField)

\* two creates read the file before either wrote it, both have written, and a
\* replace has followed: the file holds a record
C2_Witness ==
    /\ IsCollection /\ accepted = 3 /\ Pending = {}
    /\ Len(FocusElems) = 1 /\ GetField(FocusElems[1], FocusField) = 1
    /\ \E p, q \in Procs :
          /\ p /= q
          /\ req[p].op = "replace" /\ resp[p].status = 200 /\ req[p].seq = 3
          /\ req[q].op = "create" /\ resp[q].status = 201
          /\ loc[p].snap.data.elems /= <<>>
          /\ loc[q].snap.data.elems = <<>>

\* the records read by the request in slot p, and the index its path id finds
\* among them
ReadElems(p) == loc[p].snap.data.elems
PathId(p) == ParseInt(req[p].id)
Found(p) == FindIndex(ReadElems(p), FocusField, PathId(p))

\* C3: a replace or delete whose path id matches the identifying field of no
\* record (a path id that is no integer included) is answered 404 and leaves
\* the content of the collection file as it was.
C3_AbsentIdIs404 ==
    \A p \in Procs :
        (Latest(p) /\ req[p].op \in {"replace", "delete"} /\ Found(p) = 0) =>
            /\ resp[p].status = 404
            /\ FocusFile = loc[p].snap

\* what holds of the code: the same when the collection file exists; when it
\* does not, the answer is 500.  In both cases nothing is written.
C3_AbsentIdWhenFileExists ==
    \A p \in Procs :
        (Latest(p) /\ req[p].op \in {"replace", "delete"} /\ Found(p) = 0) =>
            /\ resp[p].status = IF loc[p].snap.exists THEN 404 ELSE 500
            /\ FocusFile = loc[p].snap

\* what a replace with a matching path id answered and stored
Replaced(p) ==
    /\ resp[p].status = 200
    /\ GetField(resp[p].body, FocusField) = PathId(p)
    /\ Len(FocusElems) = Len(ReadElems(p))
    /\ \A j \in DOMAIN FocusElems :
          IF j = Found(p)
          THEN GetField(FocusElems[j], FocusField) = PathId(p)
          ELSE FocusElems[j] = ReadElems(p)[j]

\* C4 as stated: a replace whose path id equals the identifying field of a
\* record in the file returns a record, and stores at the position of the
\* first matching record a record, whose identifying field is the path id,
\* whatever the body; the number of records, their order and every other
\* record are unchanged.
C4_ReplaceStampsPathId ==
    \A p \in Procs :
        (Latest(p) /\ req[p].op = "replace" /\ loc[p].snap.exists /\ Found(p) /= 0) =>
            Replaced(p)

\* C4 amended: the same for a replace whose body is a JSON object; the record
\* returned and stored is the body with the identifying field set to the path
\* id.
C4_ReplaceObjectStampsPathId ==
    \A p \in Procs :
        (/\ Latest(p) /\ req[p].op = "replace" /\ loc[p].snap.exists /\ Found(p) /= 0
         /\ req[p].body.kind = "obj") =>
            /\ Replaced(p)
            /\ resp[p].body = SetField(req[p].body, FocusField, PathId(p))
            /\ FocusElems[Found(p)] = resp[p].body

\* the second of two records is replaced through the path id "2x" by a body
\* that carried 1 for the identifying field
C4_Witness ==
    \E p \in Procs :
        /\ Latest(p) /\ req[p].op = "replace" /\ resp[p].status = 200
        /\ req[p].id = <<"2", "x">> /\ req[p].body = Obj(1, 1, 7)
        /\ Found(p) = 2 /\ Len(FocusElems) = 2

\* C5: a whole-document overwrite with payload P is answered 201 and leaves
\* P, and nothing of the prior content, in the file; the list that follows
\* it returns exactly P.
C5_OverwriteRoundTrip ==
    \A p \in Procs :
        (pc[p] = "done" /\ req[p].op = "overwrite") =>
            /\ resp[p].status = 201
            /\ Latest(p) => (FocusFile.exists /\ ReadJson(fs, FilePath(focus)) = req[p].body)
            /\ \A q \in Procs :
                  (pc[q] = "done" /\ req[q].op = "list" /\ req[q].seq = req[p].seq + 1) =>
                      (resp[q].status = 200 /\ resp[q].body = req[p].body)

\* a payload was written over a different, non-empty document and then listed
C5_Witness ==
    \E p, q \in Procs :
        /\ pc[p] = "done" /\ req[p].op = "overwrite"
        /\ loc[p].snap.exists /\ loc[p].snap.data = Arr(<<Obj(Absent, Absent, 5)>>)
        /\ req[p].body = Obj(1, Absent, 7)
        /\ Latest(q) /\ req[q].op = "list" /\ req[q].seq = req[p].seq + 1
        /\ resp[q].body = req[p].body

\* the disk once initializeFiles has run on a disk without files
FreshDisk == CreateMissing([p \in Paths |-> NoFile], InitTargets)
\* every request accepted so far is a list
OnlyLists ==
    /\ \A q \in Procs : req[q].op \in {"none", "list"}
    /\ accepted = Cardinality({q \in Procs : req[q].op = "list"})

\* C6: after startup with no file present and before any write, a list of
\* any of the five collections is answered 200 with an empty array, in the
\* Vercel and in the local mode.
C6_FreshListIsEmpty ==
    \A p \in Procs :
        (started /\ OnlyLists /\ fs = FreshDisk /\ pc[p] = "done" /\ req[p].op = "list") =>
            (resp[p].status = 200 /\ resp[p].body = Arr(<<>>))

\* what holds of the code: so it is in the Vercel mode; in the local mode the
\* list is answered 500.
C6_FreshListByMode ==
    \A p \in Procs :
        (started /\ OnlyLists /\ fs = FreshDisk /\ pc[p] = "done" /\ req[p].op = "list") =>
            IF isVercel THEN resp[p].status = 200 /\ resp[p].body = Arr(<<>>)
            ELSE resp[p].status = 500

(***************************************************************************)
(* The external store: table user_details, reached through supabase-js.    *)
(* A JavaScript value is a string of characters, null, undefined or (for a *)
(* repeated query parameter) an array.                                     *)
(***************************************************************************)
Str(chars) == [t |-> "str", s |-> chars]
Null == [t |-> "null", s |-> <<>>]
Undefined == [t |-> "undefined", s |-> <<>>]
QueryArray == [t |-> "array", s |-> <<>>]

\* the truthiness of a value in `x && ...` and `if (x)`
Truthy(v) == (v.t = "str" /\ Len(v.s) > 0) \/ v.t = "array"

UpperCase == <<"A", "B", "C", "D", "E", "F", "G", "H", "I", "J", "K", "L", "M",
               "N", "O", "P", "Q", "R", "S", "T", "U", "V", "W", "X", "Y", "Z">>
LowerCase == <<"a", "b", "c", "d", "e", "f", "g", "h", "i", "j", "k", "l", "m",
               "n", "o", "p", "q", "r", "s", "t", "u", "v", "w", "x", "y", "z">>
LowerChar(ch) ==
    IF \E i \in DOMAIN UpperCase : UpperCase[i] = ch
    THEN LowerCase[CHOOSE i \in DOMAIN UpperCase : UpperCase[i] = ch]
    ELSE ch
\* String.prototype.toLowerCase
ToLowerCase(chars) == [i \in DOMAIN chars |-> LowerChar(chars[i])]

KCC == <<"K", "C", "C">>
KCCAH == <<"K", "C", "C", "A", "H">>
kcc == <<"k", "c", "c">>
kccah == <<"k", "c", "c", "a", "h">>

\* what a column holds for a value sent to the store: undefined is not sent
\* and the column is null
Column(v) == IF v.t = "undefined" THEN Null ELSE v

UserIds == {"u1", "u2"}
\* the request bodies of POST /submit-user-data (isUpdate apart)
SubmitBodies ==
    {[uid |-> "u1", profile |-> [name |-> "A", aadhaar |-> "1111", userjson |-> "j1"],
      loantype |-> Str(KCC)],
     [uid |-> "u1", profile |-> [name |-> "B", aadhaar |-> "2222", userjson |-> "j2"],
      loantype |-> Str(KCCAH)],
     [uid |-> "u2", profile |-> [name |-> "A", aadhaar |-> "1111", userjson |-> "j1"],
      loantype |-> Str(kcc)],
     [uid |-> "u2", profile |-> [name |-> "B", aadhaar |-> "2222", userjson |-> "j2"],
      loantype |-> Undefined],
     [uid |-> "u1", profile |-> [name |-> "B", aadhaar |-> "2222", userjson |-> "j2"],
      loantype |-> Str(<<>>)]}
\* isUpdate of the body, tested by `if (isUpdate)`
IsUpdateValues == {"true", "false", "absent"}
Filters == {Undefined, Str(<<>>), Str(kcc), Str(KCC), Str(kccah), Str(<<"g", "o", "l", "d">>),
            QueryArray}

Row(uid, profile, loantype) ==
    [uid |-> uid, name |-> profile.name, aadhaar |-> profile.aadhaar,
     userjson |-> profile.userjson, loantype |-> Column(loantype)]

\* .eq('"உ_எண்"', userId): the rows of the table with that identifier
Eq(rs, uid) == LET T(r) == r.uid = uid IN SelectSeq(rs, T)

\* as ILike, with the letter case told apart (.like)
Like(rs, pattern) ==
    LET T(r) == r.loantype.t = "str" /\ r.loantype.s = pattern
    IN  SelectSeq(rs, T)
\* .ilike('loantype', pattern) for a pattern without wildcards: the rows whose
\* loantype is a string equal to the pattern, letter case apart
ILike(rs, pattern) ==
    LET T(r) == r.loantype.t = "str" /\ ToLowerCase(r.loantype.s) = ToLowerCase(pattern)
    IN  SelectSeq(rs, T)

\* .single(): exactly one row or an error; .maybeSingle(): at most one row or
\* an error, no row gives data null without an error.  failed: the call to the
\* store itself failed.
Single(found, failed) ==
    IF failed \/ Len(found) /= 1 THEN [error |-> TRUE, data |-> <<>>]
    ELSE [error |-> FALSE, data |-> found]
MaybeSingle(found, failed) ==
    IF failed \/ Len(found) > 1 THEN [error |-> TRUE, data |-> <<>>]
    ELSE [error |-> FALSE, data |-> found]

\* as Update, without the .eq filter
UpdateEveryRow(rs, uid, profile, loantype) ==
    [i \in DOMAIN rs |-> Row(uid, profile, loantype)]
\* .update({...}).eq('"உ_எண்"', userId)
Update(rs, uid, profile, loantype) ==
    [i \in DOMAIN rs |-> IF rs[i].uid = uid THEN Row(uid, profile, loantype) ELSE rs[i]]
\* .insert([{...}])
Insert(rs, uid, profile, loantype) == Append(rs, Row(uid, profile, loantype))

NoArgs == [uid |-> "", isUpdate |-> "absent", body |-> <<>>, filter |-> Undefined, tag |-> <<>>]
\* a call issued to the store, and whether the store failed on it
Call(name, failed) == [call |-> name, failed |-> failed]
Result(route, args, calls, status, out, total) ==
    [route |-> route, args |-> args, before |-> rows, calls |-> calls,
     status |-> status, out |-> out, total |-> total]

\* POST /submit-user-data
SubmitUserData(b, isUpdate, failed1, failed2) ==
    LET args == [NoArgs EXCEPT !.uid = b.uid, !.isUpdate = isUpdate, !.body = <<b>>]
        existingUser == Single(Eq(rows, b.uid), failed1)
        select == Call("select", failed1)
    IN  /\ Len(rows) < MaxRows \/ isUpdate = "true"
        /\ isUpdate /= "true" => ~failed2
        /\ IF isUpdate = "true"
           THEN IF existingUser.error \/ existingUser.data = <<>>
                THEN /\ ~failed2
                     /\ rows' = rows
                     /\ last' = Result("submit", args, <<select>>, 404, <<>>, 0)
                ELSE IF failed2
                THEN /\ rows' = rows
                     /\ last' = Result("submit", args, <<select, Call("update", TRUE)>>,
                                       500, <<>>, 0)
                ELSE /\ rows' = Update(rows, b.uid, b.profile, b.loantype)
                     /\ last' = Result("submit", args, <<select, Call("update", FALSE)>>,
                                       200, <<>>, 0)
           ELSE IF failed1
                THEN /\ rows' = rows
                     /\ last' = Result("submit", args, <<Call("insert", TRUE)>>, 500, <<>>, 0)
                ELSE /\ rows' = Insert(rows, b.uid, b.profile, b.loantype)
                     /\ last' = Result("submit", args, <<Call("insert", FALSE)>>, 200, <<>>, 0)
        /\ UNCHANGED fileVars

\* POST /get-user-by-id
GetUserById(uid, failed) ==
    LET args == [NoArgs EXCEPT !.uid = uid]
        res == Single(Eq(rows, uid), failed)
        calls == <<Call("select", failed)>>
    IN  /\ last' = IF res.error
                   THEN \* if (error) throw error: caught, 500
                        Result("get-user-by-id", args, calls, 500, <<>>, 0)
                   ELSE IF res.data = <<>>
                   THEN Result("get-user-by-id", args, calls, 404, <<>>, 0)
                   ELSE Result("get-user-by-id", args, calls, 200, res.data, 0)
        /\ UNCHANGED <<rows, fileVars>>

\* GET /get-all-users (tag kcc) and GET /get-all-usersAH (tag kccah)
GetAllUsers(tag, filter, failed) ==
    LET args == [NoArgs EXCEPT !.filter = filter, !.tag = tag]
        data == IF Truthy(filter) /\ ToLowerCase(filter.s) = tag
                THEN ILike(rows, tag) ELSE rows
        calls == <<Call("select", failed)>>
    IN  /\ filter.t = "array" => ~failed
        /\ last' = IF filter.t = "array"
                   THEN \* loantype.toLowerCase is not a function: caught, 500
                        Result("get-all-users", args, <<>>, 500, <<>>, 0)
                   ELSE IF failed
                   THEN Result("get-all-users", args, calls, 500, <<>>, 0)
                   ELSE Result("get-all-users", args, calls, 200, data, Len(data))
        /\ UNCHANGED <<rows, fileVars>>

\* GET /api/user-data/:uNumber (tag KCC), GET /api/user-data-kccah/:uNumber (tag KCCAH)
WrongLoanType(row, tag) == Truthy(row.loantype) /\ row.loantype /= Str(tag)
GetUserData(tag, uid, failed) ==
    LET args == [NoArgs EXCEPT !.uid = uid, !.tag = tag]
        res == MaybeSingle(Eq(rows, uid), failed)
        calls == <<Call("select", failed)>>
    IN  /\ last' = IF res.error
                   THEN Result("user-data", args, calls, 500, <<>>, 0)
                   ELSE IF res.data = <<>>
                   THEN Result("user-data", args, calls, 404, <<>>, 0)
                   ELSE IF WrongLoanType(res.data[1], tag)
                   THEN Result("user-data", args, calls, 400, <<>>, 0)
                   ELSE Result("user-data", args, calls, 200, res.data, 0)
        /\ UNCHANGED <<rows, fileVars>>

(***************************************************************************)
(* SpecDb: the requests that reach the external store, one at a time.      *)
(***************************************************************************)
NextDb ==
    \/ \E b \in SubmitBodies, u \in IsUpdateValues, f1 \in BOOLEAN, f2 \in BOOLEAN :
            SubmitUserData(b, u, f1, f2)
    \/ \E uid \in UserIds, f \in BOOLEAN : GetUserById(uid, f)
    \/ \E tag \in {kcc, kccah}, filter \in Filters, f \in BOOLEAN : GetAllUsers(tag, filter, f)
    \/ \E tag \in {KCC, KCCAH}, uid \in UserIds, f \in BOOLEAN : GetUserData(tag, uid, f)

\* the files play no part in it
InitDb == Init /\ ~isVercel /\ focus = "gold"

SpecDb == InitDb /\ [][NextDb]_vars

(***************************************************************************)
(* Properties of the store requests.                                       *)
(***************************************************************************)
Issued(name) == \E i \in DOMAIN last.calls : last.calls[i].call = name
StoreFailed == \E i \in DOMAIN last.calls : last.calls[i].failed
\* the rows that had the request's identifier when the request arrived
Matching == SelectSeq(last.before, LAMBDA r : r.uid = last.args.uid)
SubmittedRow ==
    LET b == last.args.body[1] IN
    [uid |-> b.uid, name |-> b.profile.name, aadhaar |-> b.profile.aadhaar,
     userjson |-> b.profile.userjson,
     loantype |-> IF b.loantype.t = "undefined" THEN Null ELSE b.loantype]

C8_GetUserById ==
    last.route = "get-user-by-id" =>
        /\ StoreFailed => last.status = 500
        /\ (~StoreFailed /\ Matching = <<>>) => last.status = 404
        /\ (~StoreFailed /\ Len(Matching) = 1) =>
              (last.status = 200 /\ last.out[1].userjson = Matching[1].userjson)

\* what holds of the code: no matching row is answered 500, as a failure is
C8_GetUserByIdNoRowIs500 ==
    last.route = "get-user-by-id" =>
        /\ (StoreFailed \/ Len(Matching) /= 1) => last.status = 500
        /\ (~StoreFailed /\ Len(Matching) = 1) =>
              (last.status = 200 /\ last.out[1].userjson = Matching[1].userjson)

\* C9: when the row of the identifier is found, it is answered 400, and not
\* returned, whenever its loan type is not the tag of the endpoint (the other
\* tag, another letter case, empty or null); it is returned with 200 only
\* when its loan type is the tag.
C9_WrongLoanTypeIs400 ==
    (last.route = "user-data" /\ ~StoreFailed /\ Len(Matching) = 1) =>
        IF Matching[1].loantype = Str(last.args.tag)
        THEN last.status = 200 /\ last.out = Matching
        ELSE last.status = 400 /\ last.out = <<>>

\* what holds of the code: a row whose loan type is null or empty is returned
\* with 200 by both endpoints
C9_EmptyLoanTypePasses ==
    (last.route = "user-data" /\ ~StoreFailed /\ Len(Matching) = 1) =>
        IF Matching[1].loantype \in {Str(last.args.tag), Null, Str(<<>>)}
        THEN last.status = 200 /\ last.out = Matching
        ELSE last.status = 400 /\ last.out = <<>>

\* the rows whose loan type is the string v, letter case apart
SameLoanType(v) ==
    SelectSeq(last.before,
              LAMBDA r : r.loantype.t = "str" /\ ToLowerCase(r.loantype.s) = ToLowerCase(v))

\* C10 as stated: with a filter value, whatever it is, the rows returned are
\* the rows whose loan type is that value, letter case apart; without one,
\* all rows; the total is returned with them.
C10_FilterByAnyValue ==
    (last.route = "get-all-users" /\ ~StoreFailed /\ last.args.filter.t \in {"str", "undefined"}) =>
        /\ last.status = 200
        /\ last.total = Len(last.out)
        /\ last.out = IF last.args.filter.t = "str"
                      THEN SameLoanType(last.args.filter.s) ELSE last.before

\* C10 amended: with a filter value that is the endpoint's own tag, letter
\* case apart (kcc for /get-all-users, kccah for /get-all-usersAH), the rows
\* returned are the rows whose loan type is that tag, letter case apart; with
\* any other string, or without a value, all rows; the total is returned
\* with them.
C10_FilterByOwnTag ==
    (last.route = "get-all-users" /\ ~StoreFailed /\ last.args.filter.t \in {"str", "undefined"}) =>
        /\ last.status = 200
        /\ last.total = Len(last.out)
        /\ last.out = IF last.args.filter.t = "str"
                         /\ ToLowerCase(last.args.filter.s) = last.args.tag
                      THEN SameLoanType(last.args.tag) ELSE last.before

\* /get-all-users?loantype=KCC on a table of a KCC row and a row of another
\* loan type returns the KCC row
C10_Witness ==
    /\ last.route = "get-all-users" /\ last.status = 200
    /\ last.args.tag = kcc /\ last.args.filter = Str(KCC)
    /\ Len(last.before) = 2 /\ Len(last.out) = 1
    /\ last.out[1].loantype = Str(KCC)

(***************************************************************************)
(* Properties of interleaved file requests (Spec).  Nothing coordinates    *)
(* two requests on one file: each works on the copy it read and writes the *)
(* whole file from it.                                                     *)
(***************************************************************************)
\* the request in slot p is a create with a JSON-object body that has passed
\* its read of the file
ObjectCreate(p) ==
    /\ pc[p] \in {"write", "done"}
    /\ req[p].op = "create" /\ req[p].name = focus
    /\ req[p].body.kind = "obj"

\* the create in slot p is answered 201 with the record it built
Created(p) == resp[p].status = 201 /\ resp[p].body = Stringify(loc[p].rec)

\* C11: two creates on a collection that read the same content of the file
\* (as they do when both read before either writes) build records with the
\* same identifying-field value, and each, once it has written, is answered
\* 201 with its record.
C11_SameReadSameId ==
    \A p, q \in Procs :
        (/\ IsCollection /\ p /= q
         /\ ObjectCreate(p) /\ ObjectCreate(q)
         /\ loc[p].snap = loc[q].snap) =>
            /\ GetField(loc[p].rec, FocusField) = GetField(loc[q].rec, FocusField)
            /\ GetField(loc[p].rec, FocusField) /= Absent
            /\ pc[p] = "done" => Created(p)

\* the only two requests of the run are creates; both read the file before
\* either wrote it, both are answered 201, and their records carry the same
\* identifying-field value
C11_Witness ==
    \E p, q \in Procs :
        /\ IsCollection /\ p /= q /\ accepted = 2
        /\ ObjectCreate(p) /\ ObjectCreate(q)
        /\ pc[p] = "done" /\ pc[q] = "done"
        /\ loc[p].snap = loc[q].snap
        /\ resp[p].status = 201 /\ resp[q].status = 201
        /\ GetField(resp[p].body, FocusField) = 1
        /\ GetField(resp[q].body, FocusField) = 1

\* the request in slot p is a create, replace or delete that has written the
\* file and is answered with success
Mutated(p) ==
    /\ pc[p] = "done" /\ req[p].name = focus
    /\ \/ req[p].op = "create" /\ resp[p].status = 201
       \/ req[p].op \in {"replace", "delete"} /\ resp[p].status = 200

\* by how many records the request in slot p changes the content it read
Delta(p) ==
    CASE req[p].op = "create" -> 1
      [] req[p].op = "delete" -> 0 - 1
      [] OTHER -> 0

\* the file is the copy the request in slot p wrote: the content it read with
\* its own change and no other
HoldsCopyOf(p) ==
    /\ FocusFile.data = Stringify(loc[p].data)
    /\ Len(FocusElems) = Len(ReadElems(p)) + Delta(p)

\* C12: when the last two requests on a collection are mutations that read
\* the same content of the file and both are answered with success, the file
\* is the copy one of the two wrote, that content with one change: the
\* change of the other is not in it.
C12_LastWriterWins ==
    \A p, q \in Procs :
        (/\ IsCollection /\ p /= q
         /\ Mutated(p) /\ Mutated(q)
         /\ req[p].seq + 1 = req[q].seq
         /\ loc[p].snap = loc[q].snap) =>
            HoldsCopyOf(p) \/ HoldsCopyOf(q)

\* after a first create, a create and a delete of the first record both read
\* the file with its one record; the create wrote, then the delete; both are
\* answered with success, the create with a record whose identifying value
\* is 2, and the file holds no record
C12_Witness ==
    \E p, q \in Procs :
        /\ IsCollection /\ p /= q /\ accepted = 3
        /\ Mutated(p) /\ Mutated(q)
        /\ req[p].op = "create" /\ req[q].op = "delete"
        /\ {req[p].seq, req[q].seq} = {2, 3}
        /\ loc[p].snap = loc[q].snap /\ Len(ReadElems(p)) = 1
        /\ GetField(resp[p].body, FocusField) = 2
        /\ FocusElems = <<>>
====
